---- MODULE Spec2Model ----
(***************************************************************************)
(* LabelDecoder: the response extractor of utils/gemini_analyzer.py        *)
(* (GeminiAnalyzer._process_response and its four extractors), the record  *)
(* store of database/db_manager.py and the analyze_image flow of app.py     *)
(* that calls the model and stores its result.                             *)
(*                                                                         *)
(* A Python str is modelled as a sequence of one-character strings, so     *)
(* that splitting, trimming, slicing and regular-expression search are     *)
(* computed character by character as the interpreter computes them.       *)
(***************************************************************************)
EXTENDS Integers, Sequences, FiniteSets, TLC

(***************************************************************************)
(* Characters                                                              *)
(***************************************************************************)

\* str.lower() / re.IGNORECASE folding on the ASCII letters
UpperToLower ==
    [A |-> "a", B |-> "b", C |-> "c", D |-> "d", E |-> "e", F |-> "f",
     G |-> "g", H |-> "h", I |-> "i", J |-> "j", K |-> "k", L |-> "l",
     M |-> "m", N |-> "n", O |-> "o", P |-> "p", Q |-> "q", R |-> "r",
     S |-> "s", T |-> "t", U |-> "u", V |-> "v", W |-> "w", X |-> "x",
     Y |-> "y", Z |-> "z"]

LowerChar(c) ==
    IF c \in DOMAIN UpperToLower THEN UpperToLower[c] ELSE c

\* the whitespace characters of str.strip() and of the class \s
Whitespace == {" ", "\t", "\n", "\r", "\f"}

\* the class \d, with the value int() gives each digit
DigitValue ==
    [c \in {"0", "1", "2", "3", "4", "5", "6", "7", "8", "9"} |->
        CASE c = "0" -> 0 [] c = "1" -> 1 [] c = "2" -> 2 [] c = "3" -> 3
          [] c = "4" -> 4 [] c = "5" -> 5 [] c = "6" -> 6 [] c = "7" -> 7
          [] c = "8" -> 8 [] c = "9" -> 9]

Digits == DOMAIN DigitValue

(***************************************************************************)
(* str methods used by the extractors                                      *)
(***************************************************************************)

\* s.lower()
Lower(s) == [i \in 1..Len(s) |-> LowerChar(s[i])]

\* s[:n]
Slice(s, n) == SubSeq(s, 1, IF n < Len(s) THEN n ELSE Len(s))

\* s.startswith(prefix)
StartsWith(s, prefix) ==
    /\ Len(prefix) <= Len(s)
    /\ SubSeq(s, 1, Len(prefix)) = prefix

\* sub occurs in s at index i (1-based)
OccursAt(s, sub, i) ==
    /\ i >= 1
    /\ i + Len(sub) - 1 <= Len(s)
    /\ SubSeq(s, i, i + Len(sub) - 1) = sub

\* sub in s
Contains(s, sub) == \E i \in 1..(Len(s) + 1) : OccursAt(s, sub, i)

\* the least and the greatest element of a non-empty set of integers
Min(S) == CHOOSE x \in S : \A y \in S : x <= y
Max(S) == CHOOSE x \in S : \A y \in S : y <= x

\* s.find(sub): the lowest index where sub occurs, 0 when it does not
Find(s, sub) ==
    LET at == {i \in 1..Len(s) : OccursAt(s, sub, i)}
    IN  IF at = {} THEN 0 ELSE Min(at)

\* s.split(sep): all the pieces between occurrences of sep
RECURSIVE Split(_, _)
Split(s, sep) ==
    LET i == Find(s, sep)
    IN  IF i = 0 THEN <<s>>
        ELSE <<SubSeq(s, 1, i - 1)>> \o Split(SubSeq(s, i + Len(sep), Len(s)), sep)

\* s.split(sep, 1): at most one split, at the first occurrence of sep
SplitOnce(s, sep) ==
    LET i == Find(s, sep)
    IN  IF i = 0 THEN <<s>>
        ELSE <<SubSeq(s, 1, i - 1), SubSeq(s, i + Len(sep), Len(s))>>

\* s.strip(): s from its first to its last non-whitespace character
Strip(s) ==
    LET keep == {i \in 1..Len(s) : s[i] \notin Whitespace}
    IN  IF keep = {} THEN <<>> ELSE SubSeq(s, Min(keep), Max(keep))

\* sep.join(parts)
RECURSIVE Join(_, _)
Join(sep, parts) ==
    IF parts = <<>> THEN <<>>
    ELSE IF Len(parts) = 1 THEN parts[1]
    ELSE parts[1] \o sep \o Join(sep, Tail(parts))

\* int(digits) on a non-empty run of decimal digits
RECURSIVE ParseInt(_)
ParseInt(ds) ==
    IF ds = <<>> THEN 0
    ELSE 10 * ParseInt(SubSeq(ds, 1, Len(ds) - 1)) + DigitValue[ds[Len(ds)]]

(***************************************************************************)
(* Regular expressions: re.search(pattern, text, re.IGNORECASE)            *)
(*                                                                         *)
(* A pattern is a sequence of elements: a literal, a greedy repetition of  *)
(* a character class (at least `least` characters), or the capture group   *)
(* (\d+).  Repetitions are matched greedily with backtracking.             *)
(***************************************************************************)

Lit(s) == [kind |-> "lit", s |-> s]
Rep(cls, least) == [kind |-> "rep", cls |-> cls, least |-> least]
DigitsGroup == [kind |-> "group", cls |-> Digits, least |-> 1]

\* the length of the longest run of characters of cls in text from index p
RECURSIVE RunLen(_, _, _)
RunLen(text, p, cls) ==
    IF p <= Len(text) /\ text[p] \in cls
    THEN 1 + RunLen(text, p + 1, cls)
    ELSE 0

\* a literal matches at p, letters compared without regard to case
LitAt(text, p, s) ==
    /\ p + Len(s) - 1 <= Len(text)
    /\ \A j \in 1..Len(s) : LowerChar(text[p + j - 1]) = LowerChar(s[j])

\* Match elements k.. of pat at index p; <<>> when there is no match,
\* otherwise <<the text captured by the group>>.
RECURSIVE MatchFrom(_, _, _, _, _)
RECURSIVE TryLens(_, _, _, _, _, _)
MatchFrom(pat, k, text, p, cap) ==
    IF k > Len(pat) THEN <<cap>>
    ELSE LET e == pat[k]
         IN  IF e.kind = "lit"
             THEN IF LitAt(text, p, e.s)
                  THEN MatchFrom(pat, k + 1, text, p + Len(e.s), cap)
                  ELSE <<>>
             ELSE TryLens(pat, k, text, p, cap, RunLen(text, p, e.cls))

\* greedy repetition: the longest run first, then shorter ones
TryLens(pat, k, text, p, cap, n) ==
    IF n < pat[k].least THEN <<>>
    ELSE LET cap2 == IF pat[k].kind = "group"
                     THEN SubSeq(text, p, p + n - 1)
                     ELSE cap
             r == MatchFrom(pat, k + 1, text, p + n, cap2)
         IN  IF r # <<>> THEN r
             ELSE TryLens(pat, k, text, p, cap, n - 1)

\* re.search: the match at the leftmost index where the pattern matches
Search(pat, text) ==
    LET at == {i \in 1..(Len(text) + 1) : MatchFrom(pat, 1, text, i, <<>>) # <<>>}
    IN  IF at = {} THEN <<>> ELSE MatchFrom(pat, 1, text, Min(at), <<>>)

(***************************************************************************)
(* _extract_health_rating                                                  *)
(***************************************************************************)

\* r'Health Rating[:\s]+(\d+)'
HealthRatingPattern ==
    << Lit(<<"H", "e", "a", "l", "t", "h", " ", "R", "a", "t", "i", "n", "g">>),
       Rep({":"} \cup Whitespace, 1),
       DigitsGroup >>

\* variant: the separator between the label and the digits is optional
RatingPattern_OptionalSeparator ==
    << Lit(<<"R", "a", "t", "i", "n", "g">>),
       Rep({":"} \cup Whitespace, 0),
       DigitsGroup >>

\* r'Rating[:\s]+(\d+)'
RatingPattern ==
    << Lit(<<"R", "a", "t", "i", "n", "g">>),
       Rep({":"} \cup Whitespace, 1),
       DigitsGroup >>

\* r'(\d+)/10'
SlashTenPattern ==
    << DigitsGroup, Lit(<<"/", "1", "0">>) >>

\* r'(\d+)\s*out\s*of\s*10'
OutOfTenPattern ==
    << DigitsGroup,
       Rep(Whitespace, 0), Lit(<<"o", "u", "t">>),
       Rep(Whitespace, 0), Lit(<<"o", "f">>),
       Rep(Whitespace, 0), Lit(<<"1", "0">>) >>

\* variant: the '/10' pattern tried before the 'Rating' pattern
patterns_SlashTenBeforeRating ==
    << HealthRatingPattern, SlashTenPattern, RatingPattern, OutOfTenPattern >>

\* variant: the 'out of 10' pattern tried before the '/10' pattern
patterns_OutOfTenBeforeSlashTen ==
    << HealthRatingPattern, RatingPattern, OutOfTenPattern, SlashTenPattern >>

patterns ==
    << HealthRatingPattern, RatingPattern, SlashTenPattern, OutOfTenPattern >>

\* Optional[int]: None, or the one-element tuple of the integer
None == <<>>
Some(n) == <<n>>

\* the for loop over patterns, from the k-th pattern on
RECURSIVE RatingLoop(_, _)

\* variant: a match out of range ends the loop instead of being discarded
RatingLoop_NoFallThrough(text, k) ==
    IF k > Len(patterns) THEN None
    ELSE LET match == Search(patterns[k], text)
         IN  IF match # <<>>
             THEN LET rating == ParseInt(match[1])
                  IN  IF 1 <= rating /\ rating <= 10
                      THEN Some(rating)
                      ELSE None
             ELSE RatingLoop(text, k + 1)

RatingLoop(text, k) ==
    IF k > Len(patterns) THEN None
    ELSE LET match == Search(patterns[k], text)
         IN  IF match # <<>>
             THEN LET rating == ParseInt(match[1])
                  IN  IF 1 <= rating /\ rating <= 10
                      THEN Some(rating)
                      ELSE RatingLoop(text, k + 1)
             ELSE RatingLoop(text, k + 1)

_extract_health_rating(text) == RatingLoop(text, 1)

(***************************************************************************)
(* _extract_summary                                                        *)
(***************************************************************************)

Newline == <<"\n">>
Space == <<" ">>
Colon == <<":">>
Comma == <<",">>
Hash == <<"#">>

\* lines[:3]
SummaryScan == 3

\* [:200]
SummaryLimit == 200

\* '...'
Ellipsis == <<".", ".", ".">>

\* "Analysis completed"
SummaryFallback ==
    <<"A", "n", "a", "l", "y", "s", "i", "s", " ",
      "c", "o", "m", "p", "l", "e", "t", "e", "d">>

\* the for loop of _extract_summary over the lines it is given
RECURSIVE SummaryLoop(_)
SummaryLoop(lines) ==
    IF lines = <<>> THEN <<>>
    ELSE LET line == Head(lines)
         IN  IF Strip(line) # <<>> /\ ~StartsWith(line, Hash)
             THEN <<Strip(line)>> \o SummaryLoop(Tail(lines))
             ELSE SummaryLoop(Tail(lines))

\* variant: the ellipsis is appended only when the summary was cut
_extract_summary_EllipsisWhenCut(text) ==
    LET lines == Split(text, Newline)
        summary_lines == SummaryLoop(Slice(lines, SummaryScan))
        joined == Join(Space, summary_lines)
    IN  IF summary_lines # <<>>
        THEN IF Len(joined) > SummaryLimit
             THEN Slice(joined, SummaryLimit) \o Ellipsis
             ELSE joined
        ELSE SummaryFallback

_extract_summary(text) ==
    LET lines == Split(text, Newline)
        summary_lines == SummaryLoop(Slice(lines, SummaryScan))
    IN  IF summary_lines # <<>>
        THEN Slice(Join(Space, summary_lines), SummaryLimit) \o Ellipsis
        ELSE SummaryFallback

(***************************************************************************)
(* _extract_ingredients                                                    *)
(***************************************************************************)

\* 'ingredient'
IngredientWord == <<"i", "n", "g", "r", "e", "d", "i", "e", "n", "t">>

\* items[:5]
IngredientLimit == 5

\* [item.strip() for item in items]
StripAll(items) == [i \in 1..Len(items) |-> Strip(items[i])]

\* the body of the if for the selected line
IngredientItems(line) ==
    LET parts == SplitOnce(line, Colon)
    IN  IF Len(parts) > 1
        THEN LET ingredient_text == Strip(parts[2])
                 items == StripAll(Split(ingredient_text, Comma))
             IN  Slice(items, IngredientLimit)
        ELSE <<>>

\* the if of the loop: the line is an ingredient line
IsIngredientLine(line) ==
    /\ Contains(Lower(line), IngredientWord)
    /\ Contains(line, Colon)

\* the for loop of _extract_ingredients, which breaks at the first
\* ingredient line
RECURSIVE IngredientLoop(_)

\* variant: no break, every ingredient line extends the result
IngredientLoop_NoBreak(lines) ==
    IF lines = <<>> THEN <<>>
    ELSE IF IsIngredientLine(Head(lines))
         THEN IngredientItems(Head(lines)) \o IngredientLoop(Tail(lines))
         ELSE IngredientLoop(Tail(lines))

IngredientLoop(lines) ==
    IF lines = <<>> THEN <<>>
    ELSE IF IsIngredientLine(Head(lines))
         THEN IngredientItems(Head(lines))
         ELSE IngredientLoop(Tail(lines))

_extract_ingredients(text) == IngredientLoop(Split(text, Newline))

(***************************************************************************)
(* _extract_warnings                                                       *)
(***************************************************************************)

warning_keywords ==
    << <<"w", "a", "r", "n", "i", "n", "g">>,
       <<"a", "l", "l", "e", "r", "g", "e", "n">>,
       <<"c", "a", "u", "t", "i", "o", "n">>,
       <<"a", "v", "o", "i", "d">>,
       <<"c", "o", "n", "c", "e", "r", "n">> >>

\* warnings[:3]
WarningLimit == 3

\* any(keyword in line_lower for keyword in warning_keywords)
HasWarningKeyword(line) ==
    \E k \in 1..Len(warning_keywords) :
        Contains(Lower(line), warning_keywords[k])

\* variant: the text after the colon is appended even when it is empty
WarningOf_KeepsEmpty(line) ==
    IF HasWarningKeyword(line)
    THEN IF Contains(line, Colon)
         THEN <<Strip(SplitOnce(line, Colon)[2])>>
         ELSE <<Strip(line)>>
    ELSE <<>>

\* what one line appends to warnings: a sequence of zero or one string
WarningOf(line) ==
    IF HasWarningKeyword(line)
    THEN IF Contains(line, Colon)
         THEN LET warning_text == Strip(SplitOnce(line, Colon)[2])
              IN  IF warning_text # <<>> THEN <<warning_text>> ELSE <<>>
         ELSE <<Strip(line)>>
    ELSE <<>>

\* the for loop of _extract_warnings over every line
RECURSIVE WarningLoop(_)
WarningLoop(lines) ==
    IF lines = <<>> THEN <<>>
    ELSE WarningOf(Head(lines)) \o WarningLoop(Tail(lines))

\* variant: only the first three lines are scanned
_extract_warnings_FirstThreeLines(text) ==
    WarningLoop(Slice(Split(text, Newline), WarningLimit))

_extract_warnings(text) ==
    Slice(WarningLoop(Split(text, Newline)), WarningLimit)

(***************************************************************************)
(* _process_response                                                       *)
(***************************************************************************)

\* variant: a rating that was not found is given as 0
_process_response_RatingZeroWhenAbsent(response_text) ==
    LET rating == _extract_health_rating(response_text)
    IN  [summary         |-> _extract_summary(response_text),
         health_rating   |-> IF rating = None THEN Some(0) ELSE rating,
         key_ingredients |-> _extract_ingredients(response_text),
         warnings        |-> _extract_warnings(response_text)]

\* variant: the warnings are taken with the ingredient extractor
_process_response_WarningsFromIngredients(response_text) ==
    [summary         |-> _extract_summary(response_text),
     health_rating   |-> _extract_health_rating(response_text),
     key_ingredients |-> _extract_ingredients(response_text),
     warnings        |-> _extract_ingredients(response_text)]

_process_response(response_text) ==
    [summary         |-> _extract_summary(response_text),
     health_rating   |-> _extract_health_rating(response_text),
     key_ingredients |-> _extract_ingredients(response_text),
     warnings        |-> _extract_warnings(response_text)]

(***************************************************************************)
(* Inputs: the analysis texts the extractors are applied to                *)
(***************************************************************************)

\* the concatenation of a sequence of strings (by halves, so that long
\* sequences do not nest deeply)
RECURSIVE Concat(_)
Concat(parts) ==
    IF parts = <<>> THEN <<>>
    ELSE IF Len(parts) = 1 THEN parts[1]
    ELSE LET half == Len(parts) \div 2
         IN  Concat(SubSeq(parts, 1, half))
                 \o Concat(SubSeq(parts, half + 1, Len(parts)))

\* all sequences of at most n elements of S
SeqsUpTo(S, n) == UNION {[1..k -> S] : k \in 0..n}

MaxPhrases == 3
MaxSummaryLines == 4
MaxIngredientLines == 3
MaxWarningLines == 4

\* rating phrases, concatenated freely (so that digits and labels of
\* neighbouring phrases run into each other)
RatingPhrases ==
    { <<"H", "e", "a", "l", "t", "h", " ", "R", "a", "t", "i", "n", "g", ":",
        " ", "9", "/", "1", "0">>,
      <<"H", "E", "A", "L", "T", "H", " ", "R", "A", "T", "I", "N", "G", ":",
        " ", "0">>,
      <<"R", "a", "t", "i", "n", "g", ":", " ", "1", "5">>,
      <<"r", "a", "t", "i", "n", "g", " ", "3">>,
      <<"R", "a", "t", "i", "n", "g">>,
      <<"H", "e", "a", "l", "t", "h", " ", "R", "a", "t", "i", "n", "g">>,
      <<"7", "/", "1", "0">>,
      <<"4", " ", "o", "u", "t", " ", "o", "f", " ", "1", "0">>,
      <<"1">>,
      <<"\n">> }

RatingTexts == {Concat(ps) : ps \in SeqsUpTo(RatingPhrases, MaxPhrases)}

LongLine == [i \in 1..70 |-> "x"]

\* lines of a response as the summary sees them
SummaryLines ==
    { <<>>,
      <<" ", " ">>,
      <<"#", " ", "W", "a", "r", "n", "i", "n", "g", "s">>,
      <<" ", "#", " ", "b">>,
      <<" ", "a", " ">>,
      LongLine }

SummaryTexts ==
    {Join(Newline, ls) : ls \in SeqsUpTo(SummaryLines, MaxSummaryLines)}

\* lines with and without the word 'ingredient' and the colon
IngredientLines ==
    { <<"M", "a", "i", "n", " ", "I", "n", "g", "r", "e", "d", "i", "e", "n",
        "t", "s", ":", " ", "W", "a", "t", "e", "r", ",", " ", "S", "u", "g",
        "a", "r", ",", " ", "S", "a", "l", "t", ",", " ", "C", "i", "t", "r",
        "i", "c", " ", "A", "c", "i", "d", ",", " ", "V", "a", "n", "i", "l",
        "l", "a", ",", " ", "E", "x", "t", "r", "a">>,
      <<"I", "n", "g", "r", "e", "d", "i", "e", "n", "t", "s", ":">>,
      <<"i", "n", "g", "r", "e", "d", "i", "e", "n", "t", "s", ":", " ",
        "a", ",", ",", " ", "b">>,
      <<"I", "N", "G", "R", "E", "D", "I", "E", "N", "T", "S", " ", ":", " ",
        "x", " ", ",", "y">>,
      <<"C", "o", "n", "t", "a", "i", "n", "s", " ", "i", "n", "g", "r", "e",
        "d", "i", "e", "n", "t", " ", "t", "r", "a", "c", "e", "s">>,
      <<"N", "o", "t", "e", ":", " ", "f", "i", "n", "e">>,
      <<>> }

IngredientTexts ==
    {Join(Newline, ls) : ls \in SeqsUpTo(IngredientLines, MaxIngredientLines)}

\* lines with and without a warning keyword and the colon
WarningLines ==
    { <<"A", "l", "l", "e", "r", "g", "e", "n", " ", "W", "a", "r", "n", "i",
        "n", "g", "s", ":", " ", "C", "o", "n", "t", "a", "i", "n", "s", " ",
        "n", "u", "t", "s">>,
      <<"C", "a", "u", "t", "i", "o", "n", ":">>,
      <<" ", "a", "v", "o", "i", "d", " ", "s", "u", "g", "a", "r", " ">>,
      <<"P", "o", "t", "e", "n", "t", "i", "a", "l", " ", "C", "o", "n", "c",
        "e", "r", "n", "s", ":", " ", "h", "i", "g", "h", " ", "s", "o", "d",
        "i", "u", "m">>,
      <<"W", "A", "R", "N", "I", "N", "G">>,
      <<"N", "o", "t", "e", ":", " ", "f", "i", "n", "e">> }

WarningTexts ==
    {Join(Newline, ls) : ls \in SeqsUpTo(WarningLines, MaxWarningLines)}

(***************************************************************************)
(* The extractors applied to an analysis text                              *)
(***************************************************************************)

VARIABLES
    text,               \* the analysis text an extractor is applied to
    ret,                \* the last call of the model and its return value
    gemini_api_key,     \* 'gemini_api_key' in st.session_state
    pc,                 \* the position of analyze_image
    requests,           \* the number of analyze requests so far
    now,                \* CURRENT_TIMESTAMP of the database, in seconds
    uploaded_images,    \* the rows of table uploaded_images
    analysis_results,   \* the rows of table analysis_results
    image_id,           \* the id analyze_image got for its image row
    file_info,          \* what image_handler.save_uploaded_image returned
    analyzer,           \* the GeminiAnalyzer of the request: its model
    result,             \* what analyze_label_image returned
    errors,             \* the st.error reports of each request, in order
    displayed,          \* the analysis_data given to display_analysis_results
    analysis_history,   \* st.session_state.analysis_history
    model_calls,        \* the model.generate_content calls of each request
    save_calls          \* the save_analysis_result calls of each request

extraction == <<text, ret>>

flow == <<gemini_api_key, pc, requests, now, uploaded_images,
          analysis_results, image_id, file_info, analyzer, result, errors,
          displayed, analysis_history, model_calls, save_calls>>

vars == <<text, ret, gemini_api_key, pc, requests, now, uploaded_images,
          analysis_results, image_id, file_info, analyzer, result, errors,
          displayed, analysis_history, model_calls, save_calls>>

NoCall == [fn |-> "none", val |-> <<>>]

\* analyze_label_image has returned nothing yet
NoResult == [success |-> FALSE, error |-> "", data |-> <<>>]

\* no GeminiAnalyzer has been created in the request
NoAnalyzer == "none"

\* the application before any analyze request
FlowIdle ==
    /\ gemini_api_key = FALSE
    /\ pc = "idle"
    /\ requests = 0
    /\ now = 0
    /\ uploaded_images = <<>>
    /\ analysis_results = <<>>
    /\ image_id = 0
    /\ file_info = <<>>
    /\ analyzer = NoAnalyzer
    /\ result = NoResult
    /\ errors = <<>>
    /\ displayed = <<>>
    /\ analysis_history = <<>>
    /\ model_calls = <<>>
    /\ save_calls = <<>>

\* one call of an extractor on the text; ret holds the last call's result
Call_extract_summary ==
    /\ ret' = [fn |-> "_extract_summary", val |-> _extract_summary(text)]
    /\ UNCHANGED <<text, flow>>

Call_extract_health_rating ==
    /\ ret' = [fn |-> "_extract_health_rating",
               val |-> _extract_health_rating(text)]
    /\ UNCHANGED <<text, flow>>

Call_extract_ingredients ==
    /\ ret' = [fn |-> "_extract_ingredients",
               val |-> _extract_ingredients(text)]
    /\ UNCHANGED <<text, flow>>

Call_extract_warnings ==
    /\ ret' = [fn |-> "_extract_warnings", val |-> _extract_warnings(text)]
    /\ UNCHANGED <<text, flow>>

InitRating == text \in RatingTexts /\ ret = NoCall /\ FlowIdle
NextRating == Call_extract_health_rating
SpecRating == InitRating /\ [][NextRating]_vars

InitSummary == text \in SummaryTexts /\ ret = NoCall /\ FlowIdle
NextSummary == Call_extract_summary
SpecSummary == InitSummary /\ [][NextSummary]_vars

InitIngredients == text \in IngredientTexts /\ ret = NoCall /\ FlowIdle
NextIngredients == Call_extract_ingredients
SpecIngredients == InitIngredients /\ [][NextIngredients]_vars

InitWarnings == text \in WarningTexts /\ ret = NoCall /\ FlowIdle
NextWarnings == Call_extract_warnings
SpecWarnings == InitWarnings /\ [][NextWarnings]_vars

(***************************************************************************)
(* _process_response applied to an analysis text                           *)
(***************************************************************************)

MaxProcessLines == 2

\* lines of a response: empty, blank, free text, a heading, a rating out of
\* range, a rating, an ingredient line without a colon, a warning line
\* with nothing after its colon
ProcessLines ==
    { <<>>,
      <<" ", " ">>,
      <<"p", "l", "a", "i", "n", " ", "t", "e", "x", "t">>,
      <<"#", " ", "R", "a", "t", "i", "n", "g">>,
      <<"H", "e", "a", "l", "t", "h", " ", "R", "a", "t", "i", "n", "g", ":", " ", "9", "9">>,
      <<"r", "a", "t", "i", "n", "g", ":", " ", "4">>,
      <<"I", "n", "g", "r", "e", "d", "i", "e", "n", "t", "s", ",", " ", "n", "o", "n", "e">>,
      <<"A", "v", "o", "i", "d", ":">> }

\* the texts of at most MaxProcessLines lines, the empty text among them
ProcessTexts ==
    {Join(Newline, ls) : ls \in SeqsUpTo(ProcessLines, MaxProcessLines)}

Call_process_response ==
    /\ ret' = [fn |-> "_process_response", val |-> _process_response(text)]
    /\ UNCHANGED <<text, flow>>

InitProcess == text \in ProcessTexts /\ ret = NoCall /\ FlowIdle

NextProcess ==
    \/ Call_process_response
    \/ Call_extract_summary
    \/ Call_extract_health_rating
    \/ Call_extract_ingredients
    \/ Call_extract_warnings

SpecProcess == InitProcess /\ [][NextProcess]_vars

(***************************************************************************)
(* json.dumps(processed_data)                                              *)
(***************************************************************************)

\* str(n) for a natural number
RECURSIVE IntToStr(_)
IntToStr(n) ==
    LET digit == CHOOSE c \in Digits : DigitValue[c] = n % 10
    IN  IF n < 10 THEN <<digit>> ELSE IntToStr(n \div 10) \o <<digit>>

\* the escape of one character inside a JSON string
JsonChar(c) ==
    CASE c = "\"" -> <<"\\", "\"">>
      [] c = "\\" -> <<"\\", "\\">>
      [] c = "\n" -> <<"\\", "n">>
      [] c = "\r" -> <<"\\", "r">>
      [] c = "\t" -> <<"\\", "t">>
      [] c = "\f" -> <<"\\", "f">>
      [] OTHER    -> <<c>>

\* a str as a JSON string
JsonString(str) ==
    <<"\"">> \o Concat([i \in 1..Len(str) |-> JsonChar(str[i])]) \o <<"\"">>

\* a list of str as a JSON array
JsonList(strs) ==
    <<"[">> \o Join(<<",", " ">>, [i \in 1..Len(strs) |-> JsonString(strs[i])])
            \o <<"]">>

\* an Optional[int] as a JSON number or null
JsonOptionalInt(v) ==
    IF v = None THEN <<"n", "u", "l", "l">> ELSE IntToStr(v[1])

\* json.dumps of the dict _process_response returns, keys in insertion order
JsonDumps(processed) ==
    <<"{", "\"", "s", "u", "m", "m", "a", "r", "y", "\"", ":", " ">>
    \o JsonString(processed.summary)
    \o <<",", " ", "\"", "h", "e", "a", "l", "t", "h", "_", "r", "a", "t",
         "i", "n", "g", "\"", ":", " ">>
    \o JsonOptionalInt(processed.health_rating)
    \o <<",", " ", "\"", "k", "e", "y", "_", "i", "n", "g", "r", "e", "d",
         "i", "e", "n", "t", "s", "\"", ":", " ">>
    \o JsonList(processed.key_ingredients)
    \o <<",", " ", "\"", "w", "a", "r", "n", "i", "n", "g", "s", "\"", ":",
         " ">>
    \o JsonList(processed.warnings)
    \o <<"}">>

(***************************************************************************)
(* The record store: database/db_manager.py                                *)
(***************************************************************************)

\* the last second the database clock reaches
MaxTime == 1

\* CURRENT_TIMESTAMP has a resolution of one second: a second passes
Tick ==
    /\ now < MaxTime
    /\ now' = now + 1
    /\ UNCHANGED <<extraction, gemini_api_key, pc, requests, uploaded_images,
                   analysis_results, image_id, file_info, analyzer, result,
                   errors, displayed, analysis_history, model_calls,
                   save_calls>>

\* db_manager.save_uploaded_image: the row inserted, with its AUTOINCREMENT
\* id and the column defaults CURRENT_TIMESTAMP and 'pending'
NewImageRow(rows, original_filename, path, t) ==
    [id                |-> Len(rows) + 1,
     original_filename |-> original_filename,
     file_path         |-> path,
     upload_timestamp  |-> t,
     analysis_status   |-> "pending"]

\* variant: INSERT OR REPLACE, the image's earlier analysis is replaced
InsertAnalysis_ReplacesEarlier(rows, id, analysis_text, analysis_json, model_used, t) ==
    LET new == [id                 |-> Len(rows) + 1,
                image_id           |-> id,
                analysis_text      |-> analysis_text,
                analysis_json      |-> analysis_json,
                analysis_timestamp |-> t,
                model_used         |-> model_used]
    IN  IF \E n \in 1..Len(rows) : rows[n].image_id = id
        THEN [n \in 1..Len(rows) |->
                 IF rows[n].image_id = id
                 THEN [new EXCEPT !.id = rows[n].id]
                 ELSE rows[n]]
        ELSE Append(rows, new)

\* db_manager.save_analysis_result: the rows of analysis_results after the
\* INSERT, the new row with its AUTOINCREMENT id and CURRENT_TIMESTAMP
InsertAnalysis(rows, id, analysis_text, analysis_json, model_used, t) ==
    Append(rows, [id                 |-> Len(rows) + 1,
                  image_id           |-> id,
                  analysis_text      |-> analysis_text,
                  analysis_json      |-> analysis_json,
                  analysis_timestamp |-> t,
                  model_used         |-> model_used])

\* variant: the status written is misspelt
MarkCompleted_Misspelt(rows, id) ==
    [i \in 1..Len(rows) |->
        IF rows[i].id = id
        THEN [rows[i] EXCEPT !.analysis_status = "complete"]
        ELSE rows[i]]

\* db_manager.save_analysis_result: the rows of uploaded_images after the
\* UPDATE of the image's status
MarkCompleted(rows, id) ==
    [i \in 1..Len(rows) |->
        IF rows[i].id = id
        THEN [rows[i] EXCEPT !.analysis_status = "completed"]
        ELSE rows[i]]

\* where a sqlite3 call of save_analysis_result may raise: nowhere, in the
\* INSERT, in the UPDATE or in the commit
StoreFaults == {"none", "insert", "update", "commit"}

\* variant: every statement is committed on its own, so an INSERT that
\* succeeded stays when the UPDATE or the commit raises
save_analysis_result_NoRollback(images, analyses, id, analysis_text, analysis_json, model_used, t, fault) ==
    LET inserted == InsertAnalysis(analyses, id, analysis_text,
                                   analysis_json, model_used, t)
    IN  CASE fault = "none" ->
                 [raised |-> FALSE, uploaded_images |-> MarkCompleted(images, id),
                  analysis_results |-> inserted]
          [] fault = "insert" ->
                 [raised |-> TRUE, uploaded_images |-> images,
                  analysis_results |-> analyses]
          [] OTHER ->
                 [raised |-> TRUE, uploaded_images |-> images,
                  analysis_results |-> inserted]

\* db_manager.save_analysis_result: INSERT and UPDATE run in one transaction
\* of the connection; 'with conn' commits it, or rolls it back when a call
\* raises, and the exception reaches the caller
save_analysis_result(images, analyses, id, analysis_text, analysis_json, model_used, t, fault) ==
    LET inserted == InsertAnalysis(analyses, id, analysis_text,
                                   analysis_json, model_used, t)
        updated  == MarkCompleted(images, id)
    IN  IF fault = "none"
        THEN [raised |-> FALSE, uploaded_images |-> updated,
              analysis_results |-> inserted]
        ELSE [raised |-> TRUE, uploaded_images |-> images,
              analysis_results |-> analyses]

\* the indices of the analysis rows WHERE image_id = id
AnalysesOf(rows, id) == {n \in 1..Len(rows) : rows[n].image_id = id}

\* db_manager.get_analysis_by_image_id: the rows the query may return.
\* ORDER BY analysis_timestamp DESC LIMIT 1 gives a row of the greatest
\* timestamp; which one among rows of equal timestamp SQL leaves open.
get_analysis_by_image_id(rows, id) ==
    LET of == AnalysesOf(rows, id)
    IN  IF of = {} THEN {None}
        ELSE LET latest == Max({rows[n].analysis_timestamp : n \in of})
             IN  {Some(rows[n]) : n \in {m \in of :
                                           rows[m].analysis_timestamp = latest}}

\* GeminiAnalyzer.model_name
model_name == "gemini-1.5-flash"

\* the store on its own: at most this many image rows and analysis rows
MaxImages == 2
MaxAnalyses == 2

\* the analysis text, serialised summary and model of a stored analysis
StoredText == <<"o", "k">>

\* the names of the files a user uploads, uploaded_file.name: the same
\* file is uploaded again and again
UploadedFiles == {"label.jpg"}

\* a caller inserts an image record
StoreSaveUploadedImage ==
    /\ Len(uploaded_images) < MaxImages
    /\ \E name \in UploadedFiles :
          uploaded_images' =
              Append(uploaded_images,
                     NewImageRow(uploaded_images, name,
                                 Len(uploaded_images) + 1, now))
    /\ ret' = [fn |-> "save_uploaded_image", arg |-> 0,
               val |-> Len(uploaded_images) + 1]
    /\ UNCHANGED <<text, gemini_api_key, pc, requests, now, analysis_results,
                   image_id, file_info, analyzer, result, errors, displayed,
                   analysis_history, model_calls, save_calls>>

\* a caller saves an analysis for an image id; the id need not exist, the
\* foreign key is not enforced
StoreSaveAnalysisResult ==
    /\ Len(analysis_results) < MaxAnalyses
    /\ \E id \in 1..MaxImages, fault \in StoreFaults :
          LET saved == save_analysis_result(
                           uploaded_images, analysis_results, id, StoredText,
                           JsonDumps(_process_response(StoredText)),
                           model_name, now, fault)
          IN  /\ uploaded_images' = saved.uploaded_images
              /\ analysis_results' = saved.analysis_results
              /\ ret' = [fn |-> "save_analysis_result", arg |-> id,
                         val |-> IF saved.raised THEN 0
                                 ELSE Len(saved.analysis_results)]
    /\ UNCHANGED <<text, gemini_api_key, pc, requests, now, image_id,
                   file_info, analyzer, result, errors, displayed,
                   analysis_history, model_calls, save_calls>>

\* a caller fetches the analysis of an image id
StoreGetAnalysis ==
    /\ \E id \in 1..MaxImages :
          \E row \in get_analysis_by_image_id(analysis_results, id) :
             ret' = [fn |-> "get_analysis_by_image_id", arg |-> id,
                     val |-> row]
    /\ UNCHANGED <<text, flow>>

InitStore == text = <<>> /\ ret = NoCall /\ FlowIdle

NextStore ==
    \/ StoreSaveUploadedImage
    \/ StoreSaveAnalysisResult
    \/ StoreGetAnalysis
    \/ Tick

SpecStore == InitStore /\ [][NextStore]_vars

(***************************************************************************)
(* analyze_image: from the analyze button to the stored analysis           *)
(***************************************************************************)

MaxRequests == 2

\* the three-line response of the end-to-end example
EndToEndResponse ==
    <<"H", "e", "a", "l", "t", "h", " ", "R", "a", "t", "i", "n", "g", ":",
      " ", "8", "/", "1", "0", "\n",
      "M", "a", "i", "n", " ", "I", "n", "g", "r", "e", "d", "i", "e", "n",
      "t", "s", ":", " ", "S", "u", "g", "a", "r", ",", " ", "S", "a", "l",
      "t", "\n",
      "W", "a", "r", "n", "i", "n", "g", ":", " ", "c", "o", "n", "t", "a",
      "i", "n", "s", " ", "s", "o", "y">>

\* the texts the model answers with; the empty text is an empty response
ModelResponses ==
    { EndToEndResponse,
      <<"#", " ", "L", "a", "b", "e", "l", "\n",
        "A", "v", "o", "i", "d", " ", "\"", "E", "1", "0", "2", "\"">>,
      <<>> }

\* st.error(...) in the current request
Report(error) == [errors EXCEPT ![requests] = Append(@, error)]

\* render_sidebar: the user enters an API key
EnterApiKey ==
    /\ pc = "idle"
    /\ ~gemini_api_key
    /\ gemini_api_key' = TRUE
    /\ UNCHANGED <<extraction, pc, requests, now, uploaded_images,
                   analysis_results, image_id, file_info, analyzer, result,
                   errors, displayed, analysis_history, model_calls,
                   save_calls>>

\* variant: the check of the API key is missing
ClickAnalyze_NoKeyCheck ==
    /\ pc = "idle"
    /\ requests < MaxRequests
    /\ requests' = requests + 1
    /\ image_id' = 0
    /\ file_info' = <<>>
    /\ analyzer' = NoAnalyzer
    /\ result' = NoResult
    /\ displayed' = <<>>
    /\ model_calls' = Append(model_calls, 0)
    /\ save_calls' = Append(save_calls, 0)
    /\ errors' = Append(errors, <<>>)
    /\ pc' = "save_file"
    /\ UNCHANGED <<extraction, gemini_api_key, now, uploaded_images,
                   analysis_results, analysis_history>>

\* analyze_image is entered: without an API key it reports and returns
ClickAnalyze ==
    /\ pc = "idle"
    /\ requests < MaxRequests
    /\ requests' = requests + 1
    /\ image_id' = 0
    /\ file_info' = <<>>
    /\ analyzer' = NoAnalyzer
    /\ result' = NoResult
    /\ displayed' = <<>>
    /\ model_calls' = Append(model_calls, 0)
    /\ save_calls' = Append(save_calls, 0)
    /\ IF ~gemini_api_key
       THEN errors' = Append(errors, <<"no_api_key">>) /\ pc' = "idle"
       ELSE errors' = Append(errors, <<>>) /\ pc' = "save_file"
    /\ UNCHANGED <<extraction, gemini_api_key, now, uploaded_images,
                   analysis_results, analysis_history>>

\* image_handler.save_uploaded_image: the file is saved under a fresh name,
\* which generate_unique_filename makes of the time and a uuid, or
\* validation or writing fails
SaveUploadedFile ==
    /\ pc = "save_file"
    /\ \E success \in BOOLEAN, name \in UploadedFiles :
          IF success
          THEN /\ file_info' = <<[original_filename |-> name,
                                  file_path         |-> requests]>>
               /\ pc' = "db_save_image"
               /\ errors' = errors
          ELSE /\ file_info' = <<>>
               /\ pc' = "idle"
               /\ errors' = Report("save_failed")
    /\ UNCHANGED <<extraction, gemini_api_key, requests, now,
                   uploaded_images, analysis_results, image_id, analyzer,
                   result, displayed, analysis_history, model_calls,
                   save_calls>>

\* the indices of the image rows of an uploaded file name
RowsOfFile(rows, name) ==
    {i \in 1..Len(rows) : rows[i].original_filename = name}

\* variant: a file that was uploaded before gets no new row, the id of
\* its first row is returned
DbSaveUploadedImage_ReusesRowOfFile ==
    /\ pc = "db_save_image"
    /\ LET known == RowsOfFile(uploaded_images,
                               file_info[1].original_filename)
       IN  IF known = {}
           THEN /\ uploaded_images' =
                       Append(uploaded_images,
                              NewImageRow(uploaded_images,
                                          file_info[1].original_filename,
                                          file_info[1].file_path, now))
                /\ image_id' = Len(uploaded_images) + 1
           ELSE /\ uploaded_images' = uploaded_images
                /\ image_id' = Min(known)
    /\ pc' = "create_analyzer"
    /\ UNCHANGED <<extraction, gemini_api_key, requests, now,
                   analysis_results, file_info, analyzer, result, errors,
                   displayed, analysis_history, model_calls, save_calls>>

\* db_manager.save_uploaded_image, and the id it returns
DbSaveUploadedImage ==
    /\ pc = "db_save_image"
    /\ uploaded_images' =
           Append(uploaded_images,
                  NewImageRow(uploaded_images, file_info[1].original_filename,
                              file_info[1].file_path, now))
    /\ image_id' = Len(uploaded_images) + 1
    /\ pc' = "create_analyzer"
    /\ UNCHANGED <<extraction, gemini_api_key, requests, now,
                   analysis_results, file_info, analyzer, result, errors,
                   displayed, analysis_history, model_calls, save_calls>>

\* create_gemini_analyzer and is_configured: configure_api sets the model,
\* or fails and leaves it None
CreateAnalyzer ==
    /\ pc = "create_analyzer"
    /\ \E configured \in BOOLEAN :
          IF configured
          THEN /\ analyzer' = "configured"
               /\ pc' = "analyze"
               /\ errors' = errors
          ELSE /\ analyzer' = "unconfigured"
               /\ pc' = "idle"
               /\ errors' = Report("not_configured")
    /\ UNCHANGED <<extraction, gemini_api_key, requests, now,
                   uploaded_images, analysis_results, image_id, file_info,
                   result, displayed, analysis_history, model_calls,
                   save_calls>>

Failure(error) == [success |-> FALSE, error |-> error, data |-> <<>>]

\* the dict analyze_label_image returns for the text of a response
ResultOfResponse(response_text, image_path) ==
    IF response_text # <<>>
    THEN [success |-> TRUE,
          error   |-> "",
          data    |-> <<[raw_text       |-> response_text,
                         model_used     |-> model_name,
                         image_path     |-> image_path,
                         processed_data |-> _process_response(response_text)]>>]
    ELSE Failure("no_response")

\* the ways a call of analyze_label_image on a configured analyzer goes
AnalyzeOutcomes ==
    {"file_not_found", "open_failed", "generate_failed", "malformed_response",
     "response"}

\* variant: a failed model call is attempted a second time
AnalyzeLabelImage_RetriesOnce ==
    /\ pc = "analyze"
    /\ \E outcome \in AnalyzeOutcomes :
          CASE outcome = "file_not_found" ->
                   /\ result' = Failure("file_not_found")
                   /\ model_calls' = model_calls
            [] outcome = "open_failed" ->
                   /\ result' = Failure("analysis_failed")
                   /\ model_calls' = model_calls
            [] outcome \in {"generate_failed", "malformed_response"} ->
                   /\ result' = Failure("analysis_failed")
                   /\ model_calls' = [model_calls EXCEPT ![requests] = @ + 2]
            [] outcome = "response" ->
                   /\ \E response_text \in ModelResponses :
                         result' = ResultOfResponse(response_text,
                                                    file_info[1].file_path)
                   /\ model_calls' = [model_calls EXCEPT ![requests] = @ + 1]
    /\ pc' = "handle_result"
    /\ UNCHANGED <<extraction, gemini_api_key, requests, now,
                   uploaded_images, analysis_results, image_id, file_info,
                   analyzer, errors, displayed, analysis_history, save_calls>>

\* analyzer.analyze_label_image: the analyzer is not configured, the file is
\* missing, opening the image fails, the model call raises, reading the
\* text of the response raises, or the model answers
AnalyzeLabelImage ==
    /\ pc = "analyze"
    /\ IF analyzer # "configured"
       THEN /\ result' = Failure("not_configured")
            /\ model_calls' = model_calls
       ELSE \E outcome \in AnalyzeOutcomes :
          CASE outcome = "file_not_found" ->
                   /\ result' = Failure("file_not_found")
                   /\ model_calls' = model_calls
            [] outcome = "open_failed" ->
                   /\ result' = Failure("analysis_failed")
                   /\ model_calls' = model_calls
            [] outcome \in {"generate_failed", "malformed_response"} ->
                   /\ result' = Failure("analysis_failed")
                   /\ model_calls' = [model_calls EXCEPT ![requests] = @ + 1]
            [] outcome = "response" ->
                   /\ \E response_text \in ModelResponses :
                         result' = ResultOfResponse(response_text,
                                                    file_info[1].file_path)
                   /\ model_calls' = [model_calls EXCEPT ![requests] = @ + 1]
    /\ pc' = "handle_result"
    /\ UNCHANGED <<extraction, gemini_api_key, requests, now,
                   uploaded_images, analysis_results, image_id, file_info,
                   analyzer, errors, displayed, analysis_history, save_calls>>

\* variant: the analysis of a failed result is stored as well
HandleResult_StoresFailure ==
    /\ pc = "handle_result"
    /\ IF result.success
       THEN LET analysis_data == result.data[1]
            IN  /\ analysis_results' =
                       InsertAnalysis(analysis_results, image_id,
                                      analysis_data.raw_text,
                                      JsonDumps(analysis_data.processed_data),
                                      analysis_data.model_used, now)
                /\ uploaded_images' = MarkCompleted(uploaded_images, image_id)
                /\ displayed' = <<analysis_data>>
                /\ analysis_history' =
                       Append(analysis_history,
                              [image_path |-> file_info[1].file_path,
                               result     |-> analysis_data])
                /\ errors' = errors
       ELSE /\ analysis_results' =
                   InsertAnalysis(analysis_results, image_id, <<>>, <<>>,
                                  model_name, now)
            /\ uploaded_images' = MarkCompleted(uploaded_images, image_id)
            /\ errors' = Report(result.error)
            /\ UNCHANGED <<displayed, analysis_history>>
    /\ save_calls' = [save_calls EXCEPT ![requests] = @ + 1]
    /\ pc' = "idle"
    /\ UNCHANGED <<extraction, gemini_api_key, requests, now, image_id,
                   file_info, analyzer, result, model_calls>>

\* analyze_image after the analysis: a success is stored, displayed and
\* added to the history; a failure is reported, and so is an exception of
\* save_analysis_result
HandleResult ==
    /\ pc = "handle_result"
    /\ IF result.success
       THEN LET analysis_data == result.data[1]
            IN  \E fault \in StoreFaults :
                   LET saved == save_analysis_result(
                                    uploaded_images, analysis_results,
                                    image_id, analysis_data.raw_text,
                                    JsonDumps(analysis_data.processed_data),
                                    analysis_data.model_used, now, fault)
                   IN  /\ uploaded_images' = saved.uploaded_images
                       /\ analysis_results' = saved.analysis_results
                       /\ save_calls' = [save_calls EXCEPT ![requests] = @ + 1]
                       /\ IF saved.raised
                          THEN /\ errors' = Report("error_during_analysis")
                               /\ UNCHANGED <<displayed, analysis_history>>
                          ELSE /\ displayed' = <<analysis_data>>
                               /\ analysis_history' =
                                      Append(analysis_history,
                                             [image_path |->
                                                  file_info[1].file_path,
                                              result |-> analysis_data])
                               /\ errors' = errors
       ELSE /\ errors' = Report(result.error)
            /\ UNCHANGED <<analysis_results, uploaded_images, displayed,
                           analysis_history, save_calls>>
    /\ pc' = "idle"
    /\ UNCHANGED <<extraction, gemini_api_key, requests, now, image_id,
                   file_info, analyzer, result, model_calls>>

Init == text = <<>> /\ ret = NoCall /\ FlowIdle

Next ==
    \/ EnterApiKey
    \/ ClickAnalyze
    \/ SaveUploadedFile
    \/ DbSaveUploadedImage
    \/ CreateAnalyzer
    \/ AnalyzeLabelImage
    \/ HandleResult
    \/ Tick

Spec == Init /\ [][Next]_vars

(***************************************************************************)
(* Health rating: the claims about _extract_health_rating                  *)
(***************************************************************************)

\* the priority order the patterns are claimed to be tried in
ClaimedOrder ==
    << HealthRatingPattern, RatingPattern, SlashTenPattern, OutOfTenPattern >>

\* the integer captured by the match of the k-th pattern on t
\* (only where that pattern matches)
CapturedInt(k, t) == ParseInt(Search(ClaimedOrder[k], t)[1])

Matches(k, t) == Search(ClaimedOrder[k], t) # <<>>

InRange(k, t) ==
    Matches(k, t) /\ CapturedInt(k, t) >= 1 /\ CapturedInt(k, t) <= 10

OutOfRange(k, t) ==
    Matches(k, t) /\ ~(CapturedInt(k, t) >= 1 /\ CapturedInt(k, t) <= 10)

\* the capture of the first of the patterns k0.. whose match is in range
FirstInRangeFrom(k0, t) ==
    LET K == {k \in k0..Len(ClaimedOrder) : InRange(k, t)}
    IN  IF K = {} THEN None ELSE Some(CapturedInt(Min(K), t))

RatingCalled == ret.fn = "_extract_health_rating"

HealthRatingLabel ==
    <<"h", "e", "a", "l", "t", "h", " ", "r", "a", "t", "i", "n", "g">>

RatingLabel == <<"r", "a", "t", "i", "n", "g">>

HealthRating9of10 ==
    <<"H", "e", "a", "l", "t", "h", " ", "R", "a", "t", "i", "n", "g", ":",
      " ", "9", "/", "1", "0">>

\* t contains 'Health Rating: 9/10', and no 'Health Rating' label before it
LeadsWithHealthRating9(t) ==
    /\ Find(t, HealthRating9of10) > 0
    /\ Find(Lower(t), HealthRatingLabel) = Find(t, HealthRating9of10)

\* C1: the rating returned is the integer captured by the first pattern, in
\* the order Health Rating, Rating, n/10, n out of 10, whose match is an
\* integer in [1,10], and is absent when there is none; so it is absent or
\* in [1,10]; a text whose first Health Rating label reads
\* 'Health Rating: 9/10' yields 9.
C1_FirstInRangePatternWins ==
    RatingCalled =>
        /\ ret.val = FirstInRangeFrom(1, text)
        /\ (ret.val = None \/ (ret.val[1] >= 1 /\ ret.val[1] <= 10))
        /\ (LeadsWithHealthRating9(text) => ret.val = Some(9))

\* C1 witness: patterns 2 and 3 both match in range with different
\* integers, pattern 1 does not, and the rating is that of pattern 2
C1_Witness ==
    /\ RatingCalled
    /\ ~InRange(1, text)
    /\ InRange(2, text)
    /\ InRange(3, text)
    /\ CapturedInt(2, text) # CapturedInt(3, text)
    /\ ret.val = Some(CapturedInt(2, text))

Rating15 == <<"R", "a", "t", "i", "n", "g", ":", " ", "1", "5">>

SevenOfTen == <<"7", "/", "1", "0">>

\* C2: a pattern whose match is out of [1,10] is discarded and the later
\* patterns are searched on the whole text; with no in-range match the
\* rating is absent.  'Rating: 15' alone yields absent; 'Rating: 15'
\* followed on the next line by '7/10' yields 7.
C2_OutOfRangeFallsThrough ==
    RatingCalled =>
        /\ \A k \in 1..Len(ClaimedOrder) :
              (OutOfRange(k, text) /\ \A j \in 1..(k - 1) : ~InRange(j, text))
                  => ret.val = FirstInRangeFrom(k + 1, text)
        /\ ((\A k \in 1..Len(ClaimedOrder) : ~InRange(k, text))
                  => ret.val = None)
        /\ (text = Rating15 => ret.val = None)
        /\ (text = Rating15 \o Newline \o SevenOfTen => ret.val = Some(7))

\* C2 witness: the Rating pattern's match (15) was discarded and the rating
\* comes from a '/10' match that lies before the discarded match
C2_Witness ==
    /\ RatingCalled
    /\ text = SevenOfTen \o Rating15
    /\ OutOfRange(2, text)
    /\ ret.val = Some(7)

NoRatingLabel(t) == ~Contains(Lower(t), RatingLabel)

\* C3 as stated: every text that contains '7/10' and no Rating label
\* yields 7
C3_SlashTenAlwaysSeven ==
    (RatingCalled /\ Contains(text, SevenOfTen) /\ NoRatingLabel(text))
        => ret.val = Some(7)

\* the indices of the occurrences of '/10' that directly follow a digit
SlashTenAfterDigit(t) ==
    {j \in 2..Len(t) : OccursAt(t, <<"/", "1", "0">>, j) /\ t[j - 1] \in Digits}

\* the first '/10' that follows a digit follows exactly the digit run '7'
FirstSlashTenIsSeven(t) ==
    /\ SlashTenAfterDigit(t) # {}
    /\ LET j == Min(SlashTenAfterDigit(t))
       IN  /\ t[j - 1] = "7"
           /\ (j = 2 \/ t[j - 2] \notin Digits)

\* C3 (amended): a text with no Rating label in which the first '/10' that
\* directly follows a digit is preceded by exactly the digits '7' yields 7
C3_FirstSlashTenSeven ==
    (RatingCalled /\ NoRatingLabel(text) /\ FirstSlashTenIsSeven(text))
        => ret.val = Some(7)

\* C3 witness: such a text, which also holds an in-range 'out of 10' phrase
\* with another integer
C3_Witness ==
    /\ RatingCalled
    /\ NoRatingLabel(text)
    /\ FirstSlashTenIsSeven(text)
    /\ InRange(4, text)
    /\ CapturedInt(4, text) # 7
    /\ ret.val = Some(7)

(***************************************************************************)
(* Ingredients: the claims about _extract_ingredients                      *)
(***************************************************************************)

IngredientsCalled == ret.fn = "_extract_ingredients"

LinesOf(t) == Split(t, Newline)

\* the indices of the lines whose lowercased form contains 'ingredient'
\* and which contain a colon
QualifyingLines(lines) ==
    {i \in 1..Len(lines) :
        /\ Contains(Lower(lines[i]), IngredientWord)
        /\ Contains(lines[i], Colon)}

\* the text after the first colon of a line that has one
AfterFirstColon(line) == SubSeq(line, Find(line, Colon) + 1, Len(line))

NonEmptyString(x) == x # <<>>

\* the non-empty trimmed comma-separated pieces after the first colon
NonEmptyPieces(line) ==
    SelectSeq(StripAll(Split(AfterFirstColon(line), Comma)), NonEmptyString)

\* C4: the result is the first 5 non-empty trimmed pieces of the text after
\* the first colon of the selected line; it has at most 5 elements and
\* holds no empty string.
C4_AtMostFiveNonEmptyPieces ==
    IngredientsCalled =>
        /\ Len(ret.val) <= 5
        /\ \A n \in 1..Len(ret.val) : ret.val[n] # <<>>
        /\ LET lines == LinesOf(text)
               Q == QualifyingLines(lines)
           IN  Q # {} => ret.val = Slice(NonEmptyPieces(lines[Min(Q)]), 5)

\* C5: only the first line that contains 'ingredient' (in any case) and a
\* colon contributes, whatever follows it; with no such line the result is
\* the empty sequence.
C5_OnlyFirstIngredientLine ==
    IngredientsCalled =>
        LET lines == LinesOf(text)
            Q == QualifyingLines(lines)
        IN  IF Q = {}
            THEN ret.val = <<>>
            ELSE ret.val = IngredientItems(lines[Min(Q)])

\* C5 witness: two qualifying lines with different items, the first with
\* fewer than 5, and the result holds the items of the first only
C5_Witness ==
    /\ IngredientsCalled
    /\ Len(ret.val) < 5
    /\ LET lines == LinesOf(text)
           Q == QualifyingLines(lines)
       IN  /\ Cardinality(Q) >= 2
           /\ Min(Q) > 1
           /\ \E j \in Q : j > Min(Q) /\ IngredientItems(lines[j]) # ret.val
           /\ ret.val = IngredientItems(lines[Min(Q)])

(***************************************************************************)
(* Warnings: the claims about _extract_warnings                            *)
(***************************************************************************)

WarningsCalled == ret.fn = "_extract_warnings"

ClaimedKeywords ==
    { <<"w", "a", "r", "n", "i", "n", "g">>,
      <<"a", "l", "l", "e", "r", "g", "e", "n">>,
      <<"c", "a", "u", "t", "i", "o", "n">>,
      <<"a", "v", "o", "i", "d">>,
      <<"c", "o", "n", "c", "e", "r", "n">> }

IsKeywordLine(line) ==
    \E kw \in ClaimedKeywords : Contains(Lower(line), kw)

\* the indices of the lines that produce an output
OutputLines(lines) ==
    {i \in 1..Len(lines) : WarningOf(lines[i]) # <<>>}

\* the n-th element of a set of indices, in increasing order
NthOf(P, n) ==
    CHOOSE i \in P : Cardinality({j \in P : j < i}) = n - 1

AtMost(n, m) == IF n < m THEN n ELSE m

\* C6: every line is scanned; the result holds, in line order, the outputs
\* of the first 3 lines that produce one, all of them keyword lines; it
\* never has more than 3 elements, and has exactly 3 when four or more
\* lines produce an output.
C6_FirstThreeWarningsInOrder ==
    WarningsCalled =>
        LET lines == LinesOf(text)
            P == OutputLines(lines)
        IN  /\ Len(ret.val) <= 3
            /\ Len(ret.val) = AtMost(Cardinality(P), 3)
            /\ \A n \in 1..Len(ret.val) :
                  ret.val[n] = WarningOf(lines[NthOf(P, n)])[1]
            /\ \A i \in P : IsKeywordLine(lines[i])

\* C6 witness: four lines produce an output and the result holds the three
\* different outputs of the first three
C6_Witness ==
    /\ WarningsCalled
    /\ Cardinality(OutputLines(LinesOf(text))) >= 4
    /\ Len(ret.val) = 3
    /\ ret.val[1] # ret.val[2]
    /\ ret.val[2] # ret.val[3]

\* what the claim has one line emit: nothing, or one string
ClaimedEmit(line) ==
    IF ~IsKeywordLine(line) THEN <<>>
    ELSE IF Contains(line, Colon)
         THEN IF Strip(AfterFirstColon(line)) = <<>>
              THEN <<>>
              ELSE <<Strip(AfterFirstColon(line))>>
         ELSE <<Strip(line)>>

RECURSIVE ClaimedEmits(_)
ClaimedEmits(lines) ==
    IF lines = <<>> THEN <<>>
    ELSE ClaimedEmit(Head(lines)) \o ClaimedEmits(Tail(lines))

\* C7: a keyword line with a colon emits the trimmed text after its first
\* colon, or nothing when that is empty (and then does not count toward the
\* 3); a keyword line without a colon emits the trimmed line; so every
\* warning is a non-empty trimmed string.
C7_WarningsTrimmedNonEmpty ==
    WarningsCalled =>
        /\ ret.val = Slice(ClaimedEmits(LinesOf(text)), 3)
        /\ \A n \in 1..Len(ret.val) :
              ret.val[n] # <<>> /\ Strip(ret.val[n]) = ret.val[n]

\* C7 witness: the first line is a keyword line with nothing after its
\* colon, a later line has no colon and is emitted trimmed, and the result
\* still has 3 elements
C7_Witness ==
    /\ WarningsCalled
    /\ Len(ret.val) = 3
    /\ LET lines == LinesOf(text)
       IN  /\ IsKeywordLine(lines[1])
           /\ Contains(lines[1], Colon)
           /\ ClaimedEmit(lines[1]) = <<>>
           /\ \E i \in 2..Len(lines) :
                 /\ ~Contains(lines[i], Colon)
                 /\ ClaimedEmit(lines[i]) # <<lines[i]>>
                 /\ \E n \in 1..Len(ret.val) :
                       <<ret.val[n]>> = ClaimedEmit(lines[i])

(***************************************************************************)
(* Summary: the claims about _extract_summary                              *)
(***************************************************************************)

SummaryCalled == ret.fn = "_extract_summary"

\* a line that is not blank and does not begin with '#'
IsSummaryLine(line) == Strip(line) # <<>> /\ line[1] # "#"

\* the trimmed qualifying lines of a sequence of lines
TrimmedSummaryLines(lines) == StripAll(SelectSeq(lines, IsSummaryLine))

\* C8: the summary is made of the first 3 qualifying lines of the whole
\* text, skipped lines not counting toward the 3.
C8_FirstThreeQualifyingLines ==
    (SummaryCalled /\ Len(TrimmedSummaryLines(LinesOf(text))) >= 3) =>
        ret.val =
            Slice(Join(Space, Slice(TrimmedSummaryLines(LinesOf(text)), 3)),
                  200) \o Ellipsis

\* the lines the summary was made of
Collected(t) == TrimmedSummaryLines(Slice(LinesOf(t), 3))

\* C9: with at least one collected line the summary is the first 200
\* characters of the space-joined lines followed by '...', also when the
\* joined string is shorter than 200; with none it is 'Analysis completed';
\* it never exceeds 203 characters; a text of '#' lines only yields
\* 'Analysis completed'.
C9_SummaryShape ==
    SummaryCalled =>
        /\ Len(ret.val) <= 203
        /\ IF Collected(text) = <<>>
           THEN ret.val = SummaryFallback
           ELSE LET joined == Join(Space, Collected(text))
                    kept == AtMost(Len(joined), 200)
                IN  /\ Len(ret.val) = kept + 3
                    /\ \A i \in 1..kept : ret.val[i] = joined[i]
                    /\ \A i \in 1..3 : ret.val[kept + i] = "."
        /\ LET lines == LinesOf(text)
           IN  (\A i \in 1..Len(lines) : StartsWith(lines[i], Hash))
                   => ret.val = SummaryFallback

\* C9 witness: the collected lines join to more than 200 characters and the
\* summary has 203
C9_Witness ==
    /\ SummaryCalled
    /\ Len(Join(Space, Collected(text))) > 200
    /\ Len(ret.val) = 203

(***************************************************************************)
(* End to end: the claim about the pipeline on the three-line response     *)
(***************************************************************************)

\* 'Health Rating: 8/10 Main Ingredients: Sugar, Salt Warning: contains
\* soy...'
EndToEndSummary ==
    <<"H", "e", "a", "l", "t", "h", " ", "R", "a", "t", "i", "n", "g", ":",
      " ", "8", "/", "1", "0", " ", "M", "a", "i", "n", " ", "I", "n", "g",
      "r", "e", "d", "i", "e", "n", "t", "s", ":", " ", "S", "u", "g", "a",
      "r", ",", " ", "S", "a", "l", "t", " ", "W", "a", "r", "n", "i", "n",
      "g", ":", " ", "c", "o", "n", "t", "a", "i", "n", "s", " ", "s", "o",
      "y", ".", ".", ".">>

\* the ExtractedSummary of the example, with a given summary
EndToEndExtracted(summary) ==
    [summary         |-> summary,
     health_rating   |-> Some(8),
     key_ingredients |-> << <<"S", "u", "g", "a", "r">>,
                            <<"S", "a", "l", "t">> >>,
     warnings        |-> << <<"c", "o", "n", "t", "a", "i", "n", "s", " ",
                              "s", "o", "y">> >>]

\* the serialised ExtractedSummary of the example
EndToEndJson ==
    <<"{", "\"", "s", "u", "m", "m", "a", "r", "y", "\"", ":", " ", "\"", "H",
      "e", "a", "l", "t", "h", " ", "R", "a", "t", "i", "n", "g", ":", " ",
      "8", "/", "1", "0", " ", "M", "a", "i", "n", " ", "I", "n", "g", "r",
      "e", "d", "i", "e", "n", "t", "s", ":", " ", "S", "u", "g", "a", "r",
      ",", " ", "S", "a", "l", "t", " ", "W", "a", "r", "n", "i", "n", "g",
      ":", " ", "c", "o", "n", "t", "a", "i", "n", "s", " ", "s", "o", "y",
      ".", ".", ".", "\"", ",", " ", "\"", "h", "e", "a", "l", "t", "h", "_",
      "r", "a", "t", "i", "n", "g", "\"", ":", " ", "8", ",", " ", "\"", "k",
      "e", "y", "_", "i", "n", "g", "r", "e", "d", "i", "e", "n", "t", "s",
      "\"", ":", " ", "[", "\"", "S", "u", "g", "a", "r", "\"", ",", " ", "\"",
      "S", "a", "l", "t", "\"", "]", ",", " ", "\"", "w", "a", "r", "n", "i",
      "n", "g", "s", "\"", ":", " ", "[", "\"", "c", "o", "n", "t", "a", "i",
      "n", "s", " ", "s", "o", "y", "\"", "]", "}">>

\* an analysis of the three-line response has been returned
EndToEndAnalysed ==
    result.success /\ result.data[1].raw_text = EndToEndResponse

\* C10 as stated: the pipeline on the three-line response yields rating 8,
\* ingredients Sugar and Salt, the warning 'contains soy' and the summary
\* 'Analysis completed'
C10_EndToEndAsStated ==
    EndToEndAnalysed =>
        result.data[1].processed_data = EndToEndExtracted(SummaryFallback)

\* C10 (amended): the pipeline on the three-line response yields rating 8,
\* ingredients Sugar and Salt, the warning 'contains soy' and as summary
\* the three lines joined by spaces and followed by '...'; that summary is
\* what is displayed and, serialised, what is stored
C10_EndToEndSummaryOfThreeLines ==
    /\ EndToEndAnalysed =>
          result.data[1].processed_data = EndToEndExtracted(EndToEndSummary)
    /\ (displayed # <<>> /\ displayed[1].raw_text = EndToEndResponse) =>
          displayed[1].processed_data = EndToEndExtracted(EndToEndSummary)
    /\ \A n \in 1..Len(analysis_results) :
          analysis_results[n].analysis_text = EndToEndResponse =>
              analysis_results[n].analysis_json = EndToEndJson

\* C10 witness: the request has run to its end on the three-line response:
\* the analysis is stored for the request's image and displayed
C10_Witness ==
    /\ pc = "idle"
    /\ EndToEndAnalysed
    /\ displayed # <<>>
    /\ \E n \in 1..Len(analysis_results) :
          /\ analysis_results[n].image_id = image_id
          /\ analysis_results[n].analysis_text = EndToEndResponse

(***************************************************************************)
(* The analysis flow: the claims about analyze_image                       *)
(***************************************************************************)

\* the current request has run to its end
RequestEnded == pc = "idle" /\ requests > 0

\* the indices of the analysis records that reference an image id
RecordsOf(id) ==
    {n \in 1..Len(analysis_results) : analysis_results[n].image_id = id}

\* the status of the image record with an id
StatusOf(id) == uploaded_images[id].analysis_status

\* exactly one analysis record references the image id, and it holds the
\* text, the serialised summary extracted from that text and the model name
StoredOnce(id, response_text) ==
    \E n \in RecordsOf(id) :
       /\ RecordsOf(id) = {n}
       /\ analysis_results[n].analysis_text = response_text
       /\ analysis_results[n].analysis_json =
              JsonDumps(_process_response(response_text))
       /\ analysis_results[n].model_used = model_name

StoreRaised == errors[requests] = <<"error_during_analysis">>

ModelCallFailed == ~result.success /\ result.error # ""

\* the records of both tables
Records == <<uploaded_images, analysis_results>>

\* C12: a request whose model call failed or answered with an empty text
\* ends with that failure as its one report, with no analysis record for
\* its image and the image's status 'pending'; neither the call nor the
\* handling of its failure changes any record of either table
C12_FailureReportedNothingStored ==
    /\ [](( RequestEnded /\ ModelCallFailed) =>
            /\ errors[requests] = <<result.error>>
            /\ RecordsOf(image_id) = {}
            /\ StatusOf(image_id) = "pending")
    /\ [][ (pc = "analyze" \/ (pc = "handle_result" /\ ModelCallFailed)) =>
              Records' = Records ]_vars

\* C12 witness: after a first request whose analysis was stored, a second
\* request ended on an empty response of the model
C12_Witness ==
    /\ RequestEnded
    /\ requests = 2
    /\ image_id = 2
    /\ result = Failure("no_response")
    /\ model_calls[2] = 1
    /\ errors[2] = <<"no_response">>
    /\ StoredOnce(1, EndToEndResponse)
    /\ StatusOf(1) = "completed"
    /\ StatusOf(2) = "pending"

\* the reports of a model configuration failure: no API key was supplied,
\* or configure_api failed and left the analyzer without a model
ConfigurationErrors == {"no_api_key", "not_configured"}

\* request r reported a configuration failure
ConfigurationFailed(r) ==
    \E k \in 1..Len(errors[r]) : errors[r][k] \in ConfigurationErrors

\* the ids of the image records request r inserted; the file path of a
\* record names the request that saved the file
ImagesOfRequest(r) ==
    {i \in 1..Len(uploaded_images) : uploaded_images[i].file_path = r}

\* C13: a request made without an API key, or whose analyzer was left
\* unconfigured, reports that configuration failure and ends at once; in a
\* request that reported a configuration failure the model's generate call
\* is never invoked, save_analysis_result is never called and no analysis
\* record references an image of the request
C13_ConfigurationFailureBeforeAnyRequest ==
    /\ ~gemini_api_key =>
          \A r \in 1..requests : errors[r] = <<"no_api_key">>
    /\ analyzer = "unconfigured" =>
          pc = "idle" /\ errors[requests] = <<"not_configured">>
    /\ \A r \in 1..requests :
          ConfigurationFailed(r) =>
              /\ model_calls[r] = 0
              /\ save_calls[r] = 0
              /\ \A i \in ImagesOfRequest(r) : RecordsOf(i) = {}

\* C13 witness: a request without an API key, then, the key entered, a
\* request whose analyzer could not be configured
C13_Witness ==
    /\ RequestEnded
    /\ errors = << <<"no_api_key">>, <<"not_configured">> >>
    /\ analyzer = "unconfigured"
    /\ model_calls = <<0, 0>>
    /\ analysis_results = <<>>
    /\ ImagesOfRequest(2) = {1}

\* request r has run to its end
Ended(r) == r < requests \/ (r = requests /\ pc = "idle")

\* an analysis record references an image of request r
Stored(r) == \E i \in ImagesOfRequest(r) : RecordsOf(i) # {}

\* C14: in each analyze request the model's generate call is invoked at
\* most once, save_analysis_result is called at most once and at most one
\* error is reported; a request that has ended either stored its analysis
\* and reported nothing, or stored nothing and reported exactly one error
C14_NoRetries ==
    \A r \in 1..requests :
       /\ model_calls[r] <= 1
       /\ save_calls[r] <= 1
       /\ Len(errors[r]) <= 1
       /\ Ended(r) => (Stored(r) <=> errors[r] = <<>>)
       /\ Ended(r) => (~Stored(r) <=> Len(errors[r]) = 1)

\* C14 witness: a first request whose one model call raised, and a second
\* whose answer save_analysis_result failed to store; each was attempted
\* once and reported once
C14_Witness ==
    /\ RequestEnded
    /\ errors = << <<"analysis_failed">>, <<"error_during_analysis">> >>
    /\ model_calls = <<1, 1>>
    /\ save_calls = <<0, 1>>
    /\ analysis_results = <<>>

(***************************************************************************)
(* The extractor as a whole: the claims about _process_response            *)
(***************************************************************************)

\* a summary: the fallback, or a text that ends with the ellipsis
SummaryValue(v) ==
    \/ v = SummaryFallback
    \/ /\ Len(v) > Len(Ellipsis)
       /\ SubSeq(v, Len(v) - Len(Ellipsis) + 1, Len(v)) = Ellipsis

\* a rating: absent, or one integer from 1 to 10
RatingValue(v) == v = None \/ (Len(v) = 1 /\ v[1] \in 1..10)

\* a list of at most limit strings
ListValue(v, limit) == Len(v) <= limit

\* nothing to find in a text: no line to summarise, no digit, no line with
\* 'ingredient' and a colon, no line with a warning keyword
NoSummaryLine(t) ==
    \A i \in 1..Len(LinesOf(t)) : ~IsSummaryLine(LinesOf(t)[i])
NoDigit(t) == \A i \in 1..Len(t) : t[i] \notin Digits
NoIngredientLine(t) == QualifyingLines(LinesOf(t)) = {}
NoWarningLine(t) ==
    \A i \in 1..Len(LinesOf(t)) : ~IsKeywordLine(LinesOf(t)[i])

\* what each extractor returns is a value of its kind, and the value for
\* 'nothing found' where the text holds nothing to find
SummaryReturned(t, v) ==
    SummaryValue(v) /\ (NoSummaryLine(t) => v = SummaryFallback)
RatingReturned(t, v) ==
    RatingValue(v) /\ (NoDigit(t) => v = None)
IngredientsReturned(t, v) ==
    ListValue(v, IngredientLimit) /\ (NoIngredientLine(t) => v = <<>>)
WarningsReturned(t, v) ==
    ListValue(v, WarningLimit) /\ (NoWarningLine(t) => v = <<>>)

\* C16: on every text, the empty text and texts of blank lines among them,
\* _process_response and each of the four extractors return a value of
\* their kind; where there is nothing to find the rating is absent, the
\* lists are empty and the summary is the fallback
C16_ExtractorIsTotal ==
    /\ ret.fn = "_extract_summary" => SummaryReturned(text, ret.val)
    /\ ret.fn = "_extract_health_rating" => RatingReturned(text, ret.val)
    /\ ret.fn = "_extract_ingredients" => IngredientsReturned(text, ret.val)
    /\ ret.fn = "_extract_warnings" => WarningsReturned(text, ret.val)
    /\ ret.fn = "_process_response" =>
          /\ DOMAIN ret.val = {"summary", "health_rating", "key_ingredients",
                               "warnings"}
          /\ SummaryReturned(text, ret.val.summary)
          /\ RatingReturned(text, ret.val.health_rating)
          /\ IngredientsReturned(text, ret.val.key_ingredients)
          /\ WarningsReturned(text, ret.val.warnings)

\* C16 witness: _process_response on a text of two blank lines returned
\* the fallback summary, no rating and two empty lists
C16_Witness ==
    /\ ret.fn = "_process_response"
    /\ text = <<" ", " ", "\n", " ", " ">>
    /\ ret.val = [summary         |-> SummaryFallback,
                  health_rating   |-> None,
                  key_ingredients |-> <<>>,
                  warnings        |-> <<>>]

(***************************************************************************)
(* The record store: the claims about DatabaseManager                      *)
(***************************************************************************)

\* the analysis record inserted last for an image id: ids are assigned in
\* the order of the inserts
MostRecentlyInserted(rows, id) ==
    IF AnalysesOf(rows, id) = {} THEN None
    ELSE Some(rows[Max(AnalysesOf(rows, id))])

\* C17: whatever was inserted before, get_analysis_by_image_id(i) returns
\* the analysis record inserted last among those whose image_id is i, and
\* nothing when there is none, also when several records of i carry the
\* same timestamp
C17_GetReturnsMostRecentlyInserted ==
    [][ (ret' # ret /\ ret'.fn = "get_analysis_by_image_id") =>
           ret'.val = MostRecentlyInserted(analysis_results, ret'.arg) ]_vars

\* the statuses an image record may have
Statuses == {"pending", "completed"}

\* an image record but for its status
WithoutStatus(row) == [row EXCEPT !.analysis_status = ""]

\* C19: every image record's status is 'pending' or 'completed'; a store
\* operation deletes no record of either table, changes no analysis
\* record and nothing but the status of an image record, inserts image
\* records as 'pending' and never takes a 'completed' record back to
\* 'pending'
C19_AppendOnlyAndStatusMonotone ==
    /\ [](\A i \in 1..Len(uploaded_images) :
             uploaded_images[i].analysis_status \in Statuses)
    /\ [][ /\ Len(uploaded_images') >= Len(uploaded_images)
           /\ Len(analysis_results') >= Len(analysis_results)
           /\ \A n \in 1..Len(analysis_results) :
                 analysis_results'[n] = analysis_results[n]
           /\ \A i \in 1..Len(uploaded_images) :
                 /\ WithoutStatus(uploaded_images'[i]) =
                        WithoutStatus(uploaded_images[i])
                 /\ uploaded_images[i].analysis_status = "completed" =>
                        uploaded_images'[i].analysis_status = "completed"
           /\ \A i \in (Len(uploaded_images) + 1)..Len(uploaded_images') :
                 uploaded_images'[i].analysis_status = "pending"
         ]_vars

\* C19 witness: two image records inserted a second apart, the first
\* 'completed' by the two analyses saved for it, the second still 'pending'
C19_Witness ==
    /\ Len(uploaded_images) = 2
    /\ uploaded_images[1].analysis_status = "completed"
    /\ uploaded_images[2].analysis_status = "pending"
    /\ uploaded_images[1].upload_timestamp < uploaded_images[2].upload_timestamp
    /\ AnalysesOf(analysis_results, 1) = {1, 2}

(***************************************************************************)
(* Health rating: the label directly followed by the digits                *)
(***************************************************************************)

\* the indices where the label 'Rating' occurs in t, in any case
RatingLabelsAt(t) ==
    {p \in 1..Len(t) : OccursAt(Lower(t), RatingLabel, p)}

\* the label at p is directly followed by a digit
DigitAfterLabel(t, p) ==
    p + Len(RatingLabel) <= Len(t) /\ t[p + Len(RatingLabel)] \in Digits

\* the integer written directly after the label at p
IntAfterLabel(t, p) ==
    LET q == p + Len(RatingLabel)
    IN  ParseInt(SubSeq(t, q, q + RunLen(t, q, Digits) - 1))

\* t has a 'Rating' label, and each one is directly followed by a digit
EveryLabelJoinsDigits(t) ==
    /\ RatingLabelsAt(t) # {}
    /\ \A p \in RatingLabelsAt(t) : DigitAfterLabel(t, p)

Rating1 == <<"R", "a", "t", "i", "n", "g", "1">>

\* C18 as stated: a text whose first 'Rating' label is directly followed by
\* the digits of an integer in [1,10], with no colon or whitespace in
\* between, yields that integer
C18_LabelJoinedToDigitsMatches ==
    (RatingCalled /\ RatingLabelsAt(text) # {}) =>
        LET p == Min(RatingLabelsAt(text))
        IN  (/\ DigitAfterLabel(text, p)
             /\ IntAfterLabel(text, p) \in 1..10)
                => ret.val = Some(IntAfterLabel(text, p))

\* C18 (amended): patterns 1 and 2 need at least one colon or whitespace
\* character between the label and the digits: a text in which every
\* 'Rating' label is directly followed by a digit is matched by neither,
\* and its rating is the one the patterns n/10 and n out of 10 give, or is
\* absent; 'Rating1' yields no rating
C18_LabelJoinedToDigitsIsNoMatch ==
    (RatingCalled /\ EveryLabelJoinsDigits(text)) =>
        /\ ~Matches(1, text)
        /\ ~Matches(2, text)
        /\ ret.val = FirstInRangeFrom(3, text)
        /\ text = Rating1 => ret.val = None

\* C18 witness: the extractor has returned no rating for 'Rating1'
C18_Witness ==
    /\ RatingCalled
    /\ text = Rating1
    /\ EveryLabelJoinsDigits(text)
    /\ ret.val = None

(***************************************************************************)
(* The analysis flow: the image's status and its analysis records          *)
(***************************************************************************)

\* C20: in every state of the upload and analysis flow an image record is
\* 'completed' exactly when an analysis record references its id, and
\* every analysis record references an image record: the insert and the
\* status update of save_analysis_result take effect together or not at all
C20_CompletedIffAnalysed ==
    /\ \A i \in 1..Len(uploaded_images) :
          uploaded_images[i].analysis_status = "completed"
              <=> RecordsOf(uploaded_images[i].id) # {}
    /\ \A n \in 1..Len(analysis_results) :
          \E i \in 1..Len(uploaded_images) :
             uploaded_images[i].id = analysis_results[n].image_id

\* C20 witness: save_analysis_result raised in the first request and left
\* its image 'pending' without a record; the second request's analysis is
\* stored and its image 'completed'
C20_Witness ==
    /\ RequestEnded
    /\ errors = << <<"error_during_analysis">>, <<>> >>
    /\ save_calls = <<1, 1>>
    /\ StatusOf(1) = "pending"
    /\ RecordsOf(1) = {}
    /\ StatusOf(2) = "completed"
    /\ RecordsOf(2) = {1}

(***************************************************************************)
(* The analysis flow: one fresh image record per request                   *)
(***************************************************************************)

\* request r got past saving the image file
PastSavingFile(r) ==
    /\ errors[r] \notin {<<"no_api_key">>, <<"save_failed">>}
    /\ r = requests => pc \notin {"save_file", "db_save_image"}

\* the ids of the image records
ImageIds(rows) == {rows[i].id : i \in 1..Len(rows)}

\* C21: every request that got past saving the image file has inserted
\* exactly one image record, under an id no record had before, also when
\* the file was uploaded before; an analysis record is inserted only for
\* the image record the same request inserted, so each image record has at
\* most one analysis record, and an image record that is 'pending' when
\* its request has ended is 'pending' ever after
C21_FreshImagePerRequest ==
    /\ [](/\ \A r \in 1..requests :
                PastSavingFile(r) => Cardinality(ImagesOfRequest(r)) = 1
          /\ \A i, j \in 1..Len(uploaded_images) :
                i # j => uploaded_images[i].id # uploaded_images[j].id
          /\ \A i \in 1..Len(uploaded_images) :
                Cardinality(RecordsOf(uploaded_images[i].id)) <= 1)
    /\ [][ /\ Len(uploaded_images') > Len(uploaded_images) =>
                /\ Len(uploaded_images') = Len(uploaded_images) + 1
                /\ image_id' \notin ImageIds(uploaded_images)
                /\ uploaded_images'[Len(uploaded_images')].id = image_id'
                /\ uploaded_images'[Len(uploaded_images')].file_path = requests
           /\ Len(analysis_results') > Len(analysis_results) =>
                /\ Len(analysis_results') = Len(analysis_results) + 1
                /\ analysis_results'[Len(analysis_results')].image_id = image_id
                /\ ImagesOfRequest(requests) = {image_id}
           /\ \A i \in 1..Len(uploaded_images) :
                (/\ uploaded_images[i].analysis_status = "pending"
                 /\ Ended(uploaded_images[i].file_path))
                    => /\ Len(uploaded_images') >= i
                       /\ uploaded_images'[i].analysis_status = "pending"
         ]_vars

\* C21 witness: the same file was analysed twice; the first request's model
\* call failed and its image record 1 is still 'pending' without an
\* analysis, the second request inserted image record 2 and its analysis
C21_Witness ==
    /\ RequestEnded
    /\ requests = 2
    /\ Len(uploaded_images) = 2
    /\ uploaded_images[1].original_filename = uploaded_images[2].original_filename
    /\ ImagesOfRequest(1) = {1}
    /\ ImagesOfRequest(2) = {2}
    /\ errors = << <<"analysis_failed">>, <<>> >>
    /\ StatusOf(1) = "pending"
    /\ RecordsOf(1) = {}
    /\ StatusOf(2) = "completed"
    /\ RecordsOf(2) = {1}
====
